---- MODULE Spec2Model ----
(***************************************************************************)
(* Model of snscrape/base.py: the retrying request loop Scraper._request   *)
(* and the cached entity accessor Scraper.entity.                          *)
(***************************************************************************)
EXTENDS Integers, Sequences, FiniteSets, TLC

\* ---------------------------------------------------------------- bounds
MaxRetries == 3
MaxRetriesTwo == 2
MaxReads == 3

\* ------------------------------------------------------- program constants
DefaultRetries == 3

\* ------------------------------------------------------- input universes
Scrapers == {"s1", "s2"}
Callers == {"s1"}
RetriesValues == {-1} \cup (0 .. MaxRetries)
Methods == {"GET"}
Urls == {"http://a/", "a"}
ParamValues == {"", "q=1"}
Callbacks == {"None", "cb"}
Bodies == {"good", "bad", "junk"}
Threads == {"t1", "t2"}
GetEntityOutcomes == {"None", "Entity", "ScraperException", "OtherError"}
EntityFailures == {"ScraperException", "OtherError"}
SendOutcomes == Bodies \cup {"RequestException", "OtherException"}

VARIABLES
    retries,   \* self._retries of each Scraper
    session,   \* self._session of each Scraper
    pc,        \* position of the running _request call of each Scraper
    args,      \* arguments of the running _request call
    attempt,   \* loop variable of _request
    req,       \* local variable req of _request
    resp,      \* local variable r of _request
    events,    \* what the running call has done so far, in order
    result,    \* how the call ended
    pyLock,    \* whether functools.cached_property serialises the computation
    cache,     \* the "entity" slot of the instance's __dict__
    lock,      \* owner of cached_property's lock
    epc,       \* position of each thread inside the entity accessor
    local,     \* local variable val of each thread inside the accessor
    entered,   \* number of _get_entity invocations made when each thread's read began
    started,   \* number of reads of the accessor begun so far
    calls,     \* outcome of each _get_entity invocation, in order
    reads      \* outcome of each finished read of the accessor, in order

rvars == <<retries, session, pc, args, attempt, req, resp, events, result>>
evars == <<pyLock, cache, lock, epc, local, entered, started, calls, reads>>
vars == <<rvars, evars>>

\* ------------------------------------------------------------ data shapes
NoUrl == [base |-> "unbound", query |-> ""]
NoReq == [bound |-> FALSE, method |-> "", url |-> NoUrl, attempt |-> -1, session |-> ""]
NoResp == [attempt |-> -1, body |-> "none"]
NoArgs == [method |-> "", url |-> "", params |-> "", callback |-> "None"]
NoMsg == [count |-> 0, url |-> NoUrl]
NoResult == [kind |-> "none", exc |-> "", origin |-> "", msg |-> NoMsg, resp |-> NoResp]
NoText == [kind |-> "", url |-> NoUrl, detail |-> <<>>, retrying |-> "", n |-> 0]

Event(ev, a, level, text) ==
    [ev |-> ev, attempt |-> a, level |-> level, text |-> text, via |-> ""]
\* a call made on a Session: self._session.prepare_request, self._session.send
Through(sess, e) == [e EXCEPT !.via = sess]
Text(kind, url, detail, retrying, n) ==
    [kind |-> kind, url |-> url, detail |-> detail, retrying |-> retrying, n |-> n]

\* The entity slot: _NOT_FOUND, or a cached object.  None is the one None
\* object; every other result of _get_entity is a new object, identified by
\* the invocation that made it.
NotFound == [found |-> FALSE, val |-> "", id |-> 0]
Cached(val, id) == [found |-> TRUE, val |-> val, id |-> IF val = "None" THEN 0 ELSE id]
ReadResult(t, since, kind, value, exc) ==
    [thread |-> t, since |-> since, kind |-> kind, value |-> value, exc |-> exc]

RECURSIVE Pow2(_)
Pow2(n) == IF n <= 0 THEN 1 ELSE 2 * Pow2(n - 1)

\* ------------------------------------------------- the Session's interface
\* one Session of the class, shared by its instances
NewSessionShared(s) == "shared"
\* line 62: self._session = requests.Session(), a new object for each
\* instance, named here by the instance that made it
NewSession(s) == s
\* requests.Session.prepare_request: a URL without a scheme is refused
\* (MissingSchema, a RequestException); otherwise the query is appended.
ValidUrl(url) == url = "http://a/"
\* the request prepared once, before the loop, and sent again on every retry
PrepareRequestOnce(s, method, url, params, a) ==
    [bound |-> TRUE, method |-> method, url |-> [base |-> url, query |-> params],
     attempt |-> 0, session |-> session[s]]
PrepareRequest(s, method, url, params, a) ==
    [bound |-> TRUE, method |-> method, url |-> [base |-> url, query |-> params],
     attempt |-> a, session |-> session[s]]

\* a callback looked for even where none was given
CallbackGivenAlways(cb) == TRUE
\* line 98: if responseOkCallback is not None
CallbackGiven(cb) == cb # "None"
\* responseOkCallback(r) of the caller: (success, msg), or it raises.
CallbackRaises(cb, body) == cb # "None" /\ body = "junk"
CallbackResult(cb, body) ==
    IF cb = "None" THEN [success |-> TRUE, msg |-> "None"]
    ELSE IF body = "good" THEN [success |-> TRUE, msg |-> "None"]
    ELSE [success |-> FALSE, msg |-> "blocked"]

\* ------------------------------------------------------ pieces of _request
\* the reason of the callback dropped
MsgSuffixDropped(msg) == <<>>
\* line 102: msg = f': {msg}' if msg else ''
MsgSuffix(msg) == IF msg \in {"None", ""} THEN <<>> ELSE <<": ", msg>>

\* range(self._retries): one attempt too few
InRangeShort(i, n) == 0 <= i /\ i < n
\* range(self._retries + 2): one attempt too many
InRangeLong(i, n) == 0 <= i /\ i < n + 2
\* line 80: for attempt in range(self._retries + 1)
InRange(i, n) == 0 <= i /\ i < n + 1

\* an except clause that catches nothing
CaughtNothing(outcome) == FALSE
\* line 89: except requests.exceptions.RequestException
Caught(outcome) == outcome = "RequestException"

\* a transport error always logged as one more to retry
TransportLevelWarning(a, n) == "WARNING"
\* lines 90-95
TransportRetrying(a, n) == IF a < n THEN ", retrying" ELSE ""
TransportLevel(a, n) == IF a < n THEN "WARNING" ELSE "ERROR"

\* a rejection always logged as the last one
RejectedLevelError(a, n) == "ERROR"
\* lines 108-113
RejectedRetrying(a, n) == IF a < n THEN ", retrying" ELSE ""
RejectedLevel(a, n) == IF a < n THEN "WARNING" ELSE "ERROR"

\* a loop that goes on to the next attempt without waiting
ShouldSleepNever(a, n) == FALSE
\* the loop left by break on success: its else clause is skipped
SuccessExitBreak == "break"
\* line 106: return r
SuccessExit == "return"

\* line 115
ShouldSleep(a, n) == a < n
\* a linear backoff: 1, 2, 3, ...
SleepTimeLinear(a) == 1 * (a + 1)
\* line 116: sleepTime = 1.0 * 2**attempt
SleepTime(a) == 1 * Pow2(a)
\* the last line logged like a failed attempt
GivingUpLevelError == "ERROR"
\* line 121: logger.fatal(msg)
GivingUpLevel == "FATAL"
\* the message counting the retries, not the requests
GivingUpMsgRetries(n, r) == [count |-> n, url |-> r.url]
\* line 120
GivingUpMsg(n, r) == [count |-> n + 1, url |-> r.url]

TypeOK ==
    /\ retries \in [Scrapers -> RetriesValues \cup {DefaultRetries}]
    /\ pc \in [Scrapers -> {"idle", "prepare", "send", "check", "backoff", "else", "done"}]
    /\ attempt \in [Scrapers -> -1 .. MaxRetries]
    /\ \A s \in Scrapers : attempt[s] <= retries[s]

\* -------------------------------------------------------------------- Init
\* No thread has touched the entity accessor: nothing is cached.
EntityUntouched ==
    /\ cache = NotFound
    /\ lock = "free"
    /\ epc = [t \in Threads |-> "idle"]
    /\ local = [t \in Threads |-> NotFound]
    /\ entered = [t \in Threads |-> 0]
    /\ started = 0
    /\ calls = <<>>
    /\ reads = <<>>

\* Scraper.__init__
Init ==
    /\ pyLock = TRUE
    /\ EntityUntouched
    /\ retries \in [Scrapers -> RetriesValues]
    /\ session = [s \in Scrapers |-> NewSession(s)]
    /\ pc = [s \in Scrapers |-> "idle"]
    /\ args = [s \in Scrapers |-> NoArgs]
    /\ attempt = [s \in Scrapers |-> -1]
    /\ req = [s \in Scrapers |-> NoReq]
    /\ resp = [s \in Scrapers |-> NoResp]
    /\ events = [s \in Scrapers |-> <<>>]
    /\ result = [s \in Scrapers |-> NoResult]

\* ----------------------------------------------------------------- actions
\* _request is entered: line 80, the first evaluation of the loop head.
Request(s, method, url, params, cb) ==
    /\ pc[s] \in {"idle", "done"}
    /\ args' = [args EXCEPT ![s] =
                  [method |-> method, url |-> url, params |-> params, callback |-> cb]]
    /\ req' = [req EXCEPT ![s] = NoReq]
    /\ resp' = [resp EXCEPT ![s] = NoResp]
    /\ events' = [events EXCEPT ![s] = <<>>]
    /\ result' = [result EXCEPT ![s] = NoResult]
    /\ IF InRange(0, retries[s])
       THEN /\ attempt' = [attempt EXCEPT ![s] = 0]
            /\ pc' = [pc EXCEPT ![s] = "prepare"]
       ELSE /\ attempt' = [attempt EXCEPT ![s] = -1]
            /\ pc' = [pc EXCEPT ![s] = "else"]
    /\ UNCHANGED <<retries, session, evars>>

\* lines 82-86
Prepare(s) ==
    /\ pc[s] = "prepare"
    /\ IF ValidUrl(args[s].url)
       THEN LET q == PrepareRequest(s, args[s].method, args[s].url, args[s].params, attempt[s])
            IN /\ req' = [req EXCEPT ![s] = q]
               /\ events' = [events EXCEPT ![s] = @ \o
                    << Through(session[s], Event("prepare", attempt[s], "", NoText)),
                       Event("log", attempt[s], "INFO", Text("Retrieving", q.url, <<>>, "", 0)),
                       Event("log", attempt[s], "DEBUG", Text("Headers", NoUrl, <<>>, "", 0)) >>]
               /\ pc' = [pc EXCEPT ![s] = "send"]
               /\ UNCHANGED result
       ELSE /\ events' = [events EXCEPT ![s] = Append(@,
                 Through(session[s], Event("prepare", attempt[s], "", NoText)))]
            /\ result' = [result EXCEPT ![s] =
                 [NoResult EXCEPT !.kind = "raise", !.exc = "MissingSchema", !.origin = "prepare"]]
            /\ pc' = [pc EXCEPT ![s] = "done"]
            /\ UNCHANGED req
    /\ UNCHANGED <<retries, session, args, attempt, resp, evars>>

\* lines 87-96
Send(s, outcome) ==
    /\ pc[s] = "send"
    /\ LET sent == Through(session[s],
                        Event("send", attempt[s], "",
                              [NoText EXCEPT !.n = req[s].attempt,
                                             !.kind = IF outcome \in Bodies THEN "response"
                                                      ELSE "raised"])) IN
       IF outcome \in Bodies
       THEN /\ resp' = [resp EXCEPT ![s] = [attempt |-> attempt[s], body |-> outcome]]
            /\ events' = [events EXCEPT ![s] = Append(@, sent)]
            /\ pc' = [pc EXCEPT ![s] = "check"]
            /\ UNCHANGED result
       ELSE IF Caught(outcome)
       THEN /\ events' = [events EXCEPT ![s] = @ \o
                 << sent,
                    Event("log", attempt[s], TransportLevel(attempt[s], retries[s]),
                          Text("ErrorRetrieving", req[s].url, <<": ", outcome>>,
                               TransportRetrying(attempt[s], retries[s]), 0)) >>]
            /\ pc' = [pc EXCEPT ![s] = "backoff"]
            /\ UNCHANGED <<resp, result>>
       ELSE /\ events' = [events EXCEPT ![s] = Append(@, sent)]
            /\ result' = [result EXCEPT ![s] =
                 [NoResult EXCEPT !.kind = "raise", !.exc = outcome, !.origin = "send"]]
            /\ pc' = [pc EXCEPT ![s] = "done"]
            /\ UNCHANGED resp
    /\ UNCHANGED <<retries, session, args, attempt, req, evars>>

\* lines 97-114 (and line 123, where a loop left without return would end)
Check(s) ==
    /\ pc[s] = "check"
    /\ LET cb == args[s].callback
           called == IF CallbackGiven(cb)
                     THEN << Event("callback", attempt[s], "", NoText) >>
                     ELSE <<>>
       IN IF CallbackRaises(cb, resp[s].body)
          THEN /\ events' = [events EXCEPT ![s] = @ \o called]
               /\ result' = [result EXCEPT ![s] =
                    [NoResult EXCEPT !.kind = "raise", !.exc = "CallbackError", !.origin = "callback"]]
               /\ pc' = [pc EXCEPT ![s] = "done"]
          ELSE LET res == CallbackResult(cb, resp[s].body)
                   msg == MsgSuffix(res.msg)
               IN IF res.success
                  THEN /\ events' = [events EXCEPT ![s] = @ \o called \o
                            << Event("log", attempt[s], "DEBUG",
                                     Text("Success", req[s].url, msg, "", 0)) >>]
                       /\ result' = [result EXCEPT ![s] =
                            IF SuccessExit = "return"
                            THEN [NoResult EXCEPT !.kind = "return", !.resp = resp[s]]
                            \* a loop left otherwise skips the else clause: line 123
                            ELSE [NoResult EXCEPT !.kind = "raise", !.exc = "RuntimeError",
                                                  !.origin = "after"]]
                       /\ pc' = [pc EXCEPT ![s] = "done"]
                  ELSE /\ events' = [events EXCEPT ![s] = @ \o called \o
                            << Event("log", attempt[s], RejectedLevel(attempt[s], retries[s]),
                                     Text("ErrorRetrieving", req[s].url, msg,
                                          RejectedRetrying(attempt[s], retries[s]), 0)) >>]
                       /\ pc' = [pc EXCEPT ![s] = "backoff"]
                       /\ UNCHANGED result
    /\ UNCHANGED <<retries, session, args, attempt, req, resp, evars>>

\* lines 115-118, then the loop head of line 80
Backoff(s) ==
    /\ pc[s] = "backoff"
    /\ IF ShouldSleep(attempt[s], retries[s])
       THEN events' = [events EXCEPT ![s] = @ \o
              << Event("log", attempt[s], "INFO",
                       Text("Waiting", NoUrl, <<>>, "", SleepTime(attempt[s]))),
                 Event("sleep", attempt[s], "", [NoText EXCEPT !.n = SleepTime(attempt[s])]) >>]
       ELSE UNCHANGED events
    /\ IF InRange(attempt[s] + 1, retries[s])
       THEN /\ attempt' = [attempt EXCEPT ![s] = @ + 1]
            /\ pc' = [pc EXCEPT ![s] = "prepare"]
       ELSE /\ pc' = [pc EXCEPT ![s] = "else"]
            /\ UNCHANGED attempt
    /\ UNCHANGED <<retries, session, args, req, resp, result, evars>>

\* lines 119-122: the else clause of the loop
Exhausted(s) ==
    /\ pc[s] = "else"
    /\ IF req[s].bound
       THEN LET msg == GivingUpMsg(retries[s], req[s]) IN
            /\ events' = [events EXCEPT ![s] = Append(@,
                 Event("log", attempt[s], GivingUpLevel, Text("GivingUp", msg.url, <<>>, "", msg.count)))]
            /\ result' = [result EXCEPT ![s] =
                 [NoResult EXCEPT !.kind = "raise", !.exc = "ScraperException",
                                  !.origin = "else", !.msg = msg]]
       ELSE /\ result' = [result EXCEPT ![s] =
                 [NoResult EXCEPT !.kind = "raise", !.exc = "UnboundLocalError", !.origin = "else"]]
            /\ UNCHANGED events
    /\ pc' = [pc EXCEPT ![s] = "done"]
    /\ UNCHANGED <<retries, session, args, attempt, req, resp, evars>>

\* one Scraper issuing _request calls one after the other
Next ==
    \E s \in Callers :
        \/ \E m \in Methods, u \in Urls, p \in ParamValues, cb \in Callbacks :
              Request(s, m, u, p, cb)
        \/ Prepare(s)
        \/ \E o \in SendOutcomes : Send(s, o)
        \/ Check(s)
        \/ Backoff(s)
        \/ Exhausted(s)

\* every Scraper issuing _request calls, interleaved
NextTwo ==
    \E s \in Scrapers :
        \/ \E m \in Methods, u \in Urls, p \in ParamValues, cb \in Callbacks :
              Request(s, m, u, p, cb)
        \/ Prepare(s)
        \/ \E o \in SendOutcomes : Send(s, o)
        \/ Check(s)
        \/ Backoff(s)
        \/ Exhausted(s)

\* two Scrapers built with the same retries, to compare their calls
InitTwo ==
    /\ pyLock = TRUE
    /\ EntityUntouched
    /\ \E n \in {-1} \cup (0 .. MaxRetriesTwo) : retries = [s \in Scrapers |-> n]
    /\ session = [s \in Scrapers |-> NewSession(s)]
    /\ pc = [s \in Scrapers |-> "idle"]
    /\ args = [s \in Scrapers |-> NoArgs]
    /\ attempt = [s \in Scrapers |-> -1]
    /\ req = [s \in Scrapers |-> NoReq]
    /\ resp = [s \in Scrapers |-> NoResp]
    /\ events = [s \in Scrapers |-> <<>>]
    /\ result = [s \in Scrapers |-> NoResult]

\* a step of a call that is running: the thread in _request goes on, every
\* prepare, send, callback and sleep it waits for returning
Running(s) == pc[s] \in {"prepare", "send", "check", "backoff", "else"}
Proceed ==
    \E s \in Callers :
        \/ Prepare(s)
        \/ \E o \in SendOutcomes : Send(s, o)
        \/ Check(s)
        \/ Backoff(s)
        \/ Exhausted(s)

Spec == Init /\ [][Next]_vars
SpecFair == Spec /\ WF_vars(Proceed)
SpecTwo == InitTwo /\ [][NextTwo]_vars

\* ------------------------------------------------------ the entity accessor
\* functools.cached_property.__get__ on the entity attribute (lines 75-77).

\* a lookup that takes a cached None for a missing entry
HitUnlessNone(c) == c.found /\ c.val # "None"
\* a lookup that never finds the entry: a plain property
HitNever(c) == FALSE
\* the cache lookup: cache.get(attrname, _NOT_FOUND) is not _NOT_FOUND
Hit(c) == c.found

\* The accessor is entered and the instance's __dict__ is looked up.
ReadEntity(t) ==
    /\ epc[t] = "idle"
    /\ started < MaxReads
    /\ started' = started + 1
    /\ entered' = [entered EXCEPT ![t] = Len(calls)]
    /\ IF Hit(cache)
       THEN /\ reads' = Append(reads, ReadResult(t, Len(calls), "return", cache, ""))
            /\ UNCHANGED epc
       ELSE /\ epc' = [epc EXCEPT ![t] = IF pyLock THEN "acquire" ELSE "compute"]
            /\ UNCHANGED reads
    /\ UNCHANGED <<pyLock, cache, lock, local, calls, rvars>>

\* With the lock (Python 3.8 to 3.11): take it and look the cache up again.
AcquireLock(t) ==
    /\ epc[t] = "acquire"
    /\ lock = "free"
    /\ IF Hit(cache)
       THEN /\ reads' = Append(reads, ReadResult(t, entered[t], "return", cache, ""))
            /\ epc' = [epc EXCEPT ![t] = "idle"]
            /\ UNCHANGED lock
       ELSE /\ lock' = t
            /\ epc' = [epc EXCEPT ![t] = "compute"]
            /\ UNCHANGED reads
    /\ UNCHANGED <<pyLock, cache, local, entered, started, calls, rvars>>

\* an accessor that turns a failure of _get_entity into its value
RaisesNothing(outcome) == FALSE
\* line 77 has no handler: an exception of _get_entity leaves the accessor
Raises(outcome) == outcome \in EntityFailures

\* val = self._get_entity(): line 77.  A failure leaves through the accessor,
\* releasing the lock on the way and caching nothing.
GetEntity(t, outcome) ==
    /\ epc[t] = "compute"
    /\ calls' = Append(calls, outcome)
    /\ IF Raises(outcome)
       THEN /\ reads' = Append(reads, ReadResult(t, entered[t], "raise", NotFound, outcome))
            /\ epc' = [epc EXCEPT ![t] = "idle"]
            /\ lock' = IF lock = t THEN "free" ELSE lock
            /\ UNCHANGED local
       ELSE /\ local' = [local EXCEPT ![t] = Cached(outcome, Len(calls) + 1)]
            /\ epc' = [epc EXCEPT ![t] = "store"]
            /\ UNCHANGED <<reads, lock>>
    /\ UNCHANGED <<pyLock, cache, entered, started, rvars>>

\* cache[attrname] = val; return val
StoreEntity(t) ==
    /\ epc[t] = "store"
    /\ cache' = local[t]
    /\ reads' = Append(reads, ReadResult(t, entered[t], "return", local[t], ""))
    /\ local' = [local EXCEPT ![t] = NotFound]
    /\ lock' = IF lock = t THEN "free" ELSE lock
    /\ epc' = [epc EXCEPT ![t] = "idle"]
    /\ UNCHANGED <<pyLock, entered, started, calls, rvars>>

\* One Scraper built with the default retries, its entity read by threads.
EntityInit ==
    /\ pyLock \in BOOLEAN
    /\ EntityUntouched
    /\ retries = [s \in Scrapers |-> DefaultRetries]
    /\ session = [s \in Scrapers |-> NewSession(s)]
    /\ pc = [s \in Scrapers |-> "idle"]
    /\ args = [s \in Scrapers |-> NoArgs]
    /\ attempt = [s \in Scrapers |-> -1]
    /\ req = [s \in Scrapers |-> NoReq]
    /\ resp = [s \in Scrapers |-> NoResp]
    /\ events = [s \in Scrapers |-> <<>>]
    /\ result = [s \in Scrapers |-> NoResult]

\* reads of the accessor one after the other: a thread moves only while no
\* other thread is inside the accessor
Alone(t) == \A u \in Threads \ {t} : epc[u] = "idle"
SeqNext ==
    \E t \in Threads :
        \/ Alone(t) /\ ReadEntity(t)
        \/ Alone(t) /\ AcquireLock(t)
        \/ \E o \in GetEntityOutcomes : Alone(t) /\ GetEntity(t, o)
        \/ Alone(t) /\ StoreEntity(t)

\* reads of the accessor from several threads
ConcNext ==
    \E t \in Threads :
        \/ ReadEntity(t)
        \/ AcquireLock(t)
        \/ \E o \in GetEntityOutcomes : GetEntity(t, o)
        \/ StoreEntity(t)

SpecSeq == EntityInit /\ [][SeqNext]_vars
SpecConc == EntityInit /\ [][ConcNext]_vars

\* ===================================================== observing a call
Evs(s, kind) == SelectSeq(events[s], LAMBDA e : e.ev = kind)
IsFailureLine(e) == e.ev = "log" /\ e.text.kind = "ErrorRetrieving"
FailureLines(s) == SelectSeq(events[s], IsFailureLine)
NumSends(s) == Len(Evs(s, "send"))
NumPrepares(s) == Len(Evs(s, "prepare"))
Sleeps(s) == Evs(s, "sleep")
LastEvent(s) == events[s][Len(events[s])]
Finished(s) == pc[s] = "done"
Returned(s) == Finished(s) /\ result[s].kind = "return"
Raised(s) == Finished(s) /\ result[s].kind = "raise"
GaveUp(s) == Raised(s) /\ result[s].exc = "ScraperException"

\* every attempt the call made ended in a failure line: a transport error
\* caught at line 89 or a rejection by responseOkCallback
EveryAttemptFailed(s) ==
    /\ Finished(s)
    /\ NumPrepares(s) >= 1
    /\ Len(FailureLines(s)) = NumPrepares(s)

\* ================================================================ claims

\* C1: with retries = n >= 0, a call all of whose attempts fail (transport
\* error or rejection, in any mix) has made exactly n+1 sends and has raised
\* ScraperException.
C1_ExhaustionAfterAllAttempts ==
    \A s \in Scrapers :
        (retries[s] >= 0 /\ EveryAttemptFailed(s)) =>
            /\ NumSends(s) = retries[s] + 1
            /\ result[s].kind = "raise"
            /\ result[s].exc = "ScraperException"

\* a call with retries = 3 whose four attempts failed in a mix of ways
C1_Witness ==
    \E s \in Scrapers :
        /\ retries[s] = 3
        /\ EveryAttemptFailed(s)
        /\ NumSends(s) = 4
        /\ \E i, j \in 1 .. 4 :
              /\ FailureLines(s)[i].text.detail = <<": ", "RequestException">>
              /\ FailureLines(s)[j].text.detail = <<": ", "blocked">>

\* C2: a call that returns has accepted the response of some attempt k <=
\* retries after k failed attempts; it has made exactly k+1 sends, returns the
\* response of attempt k, and nothing (prepare, send, sleep, exception)
\* follows the acceptance.
C2_SuccessShortCircuits ==
    \A s \in Scrapers :
        result[s].kind = "return" =>
            LET k == result[s].resp.attempt IN
            /\ Finished(s)
            /\ 0 <= k /\ k <= retries[s]
            /\ NumSends(s) = k + 1
            /\ NumPrepares(s) = k + 1
            /\ Len(FailureLines(s)) = k
            /\ Len(Sleeps(s)) = k
            /\ \A i \in 1 .. k : FailureLines(s)[i].attempt = i - 1
            /\ result[s].resp = resp[s]
            /\ Evs(s, "send")[k + 1].attempt = k
            /\ LastEvent(s).ev = "log"
            /\ LastEvent(s).text.kind = "Success"
            /\ LastEvent(s).attempt = k
            /\ result[s].exc = ""

\* retries = 3, attempts 0 and 1 fail, attempt 2 is accepted
C2_Witness ==
    \E s \in Scrapers :
        /\ Returned(s)
        /\ retries[s] = 3
        /\ result[s].resp.attempt = 2
        /\ args[s].callback # "None"

\* C3: the j-th sleep of a call follows failed attempt j-1 and lasts 2^(j-1)
\* seconds; there are never more sleeps than retries, none before attempt 0
\* and none after the attempt with index retries.
C3_BackoffDurations ==
    \A s \in Scrapers :
        LET sl == Sleeps(s) IN
        /\ Len(sl) = (IF attempt[s] < 0 THEN 0 ELSE attempt[s])
        /\ Len(sl) <= (IF retries[s] < 0 THEN 0 ELSE retries[s])
        /\ \A j \in 1 .. Len(sl) :
              /\ sl[j].text.n = 2 ^ (j - 1)
              /\ sl[j].attempt = j - 1
              /\ sl[j].attempt < retries[s]
        /\ \A i \in 1 .. Len(events[s]) :
              events[s][i].ev = "sleep" =>
                 /\ i > 2
                 /\ IsFailureLine(events[s][i - 2])
                 /\ events[s][i - 2].attempt = events[s][i].attempt
        /\ (Finished(s) /\ events[s] # <<>>) => LastEvent(s).ev # "sleep"

\* retries = 3, all four attempts fail: sleeps of 1, 2 and 4 seconds, no fourth
C3_Witness ==
    \E s \in Scrapers :
        /\ retries[s] = 3
        /\ GaveUp(s)
        /\ Len(Sleeps(s)) = 3
        /\ Sleeps(s)[1].text.n = 1
        /\ Sleeps(s)[2].text.n = 2
        /\ Sleeps(s)[3].text.n = 4

\* C4 as stated: whatever a call raises is ScraperException (already with
\* retries >= 0, the values the retry policy is meant for).
C4_OnlyScraperException ==
    \A s \in Scrapers :
        (retries[s] >= 0 /\ Raised(s)) => result[s].exc = "ScraperException"

\* C4, amended: a RequestException of send and a rejection by the callback
\* never reach the caller, they leave a failure line only; what _request
\* itself raises is ScraperException, from the else clause with retries >= 0.
\* The other exceptions that reach the caller are those of prepare_request,
\* of responseOkCallback, of send outside RequestException, and the
\* UnboundLocalError of the else clause when retries < 0.
C4_AbsorbedFailures ==
    \A s \in Scrapers :
        /\ Raised(s) =>
              \/ /\ result[s].exc = "ScraperException"
                 /\ result[s].origin = "else"
                 /\ retries[s] >= 0
                 /\ LastEvent(s).level = "FATAL"
              \/ /\ result[s].origin = "prepare"
                 /\ LastEvent(s).ev = "prepare"
              \/ /\ result[s].origin = "send"
                 /\ result[s].exc # "RequestException"
                 /\ LastEvent(s).ev = "send"
              \/ /\ result[s].origin = "callback"
                 /\ LastEvent(s).ev = "callback"
              \/ /\ result[s].origin = "else"
                 /\ result[s].exc = "UnboundLocalError"
                 /\ retries[s] < 0
                 /\ events[s] = <<>>
        /\ (Finished(s) /\ events[s] # <<>>) => ~IsFailureLine(LastEvent(s))
        /\ \A i \in 1 .. Len(FailureLines(s)) :
              FailureLines(s)[i].text.detail \in
                  { <<": ", "RequestException">>, <<": ", "blocked">> }

\* a transport error was absorbed, then the callback raised on a later attempt
C4_Witness ==
    \E s \in Scrapers :
        /\ Raised(s)
        /\ result[s].origin = "callback"
        /\ Len(FailureLines(s)) >= 1
        /\ FailureLines(s)[1].text.detail = <<": ", "RequestException">>

\* C5: the ScraperException of an exhausted call carries the URL of the
\* request prepared in the attempt with index retries, and the count
\* retries+1, which is the number of sends the call made.
C5_ExhaustionContext ==
    \A s \in Scrapers :
        GaveUp(s) =>
            /\ result[s].msg.count = retries[s] + 1
            /\ result[s].msg.count = NumSends(s)
            /\ req[s].attempt = retries[s]
            /\ result[s].msg.url = req[s].url
            /\ result[s].msg.url = [base |-> args[s].url, query |-> args[s].params]
            /\ \E i \in 1 .. Len(events[s]) :
                  /\ events[s][i].text.kind = "Retrieving"
                  /\ events[s][i].attempt = retries[s]
                  /\ events[s][i].text.url = result[s].msg.url

\* an exhausted call with retries = 3 to a URL with a query
C5_Witness ==
    \E s \in Scrapers :
        /\ GaveUp(s)
        /\ retries[s] = 3
        /\ result[s].msg = [count |-> 4, url |-> [base |-> "http://a/", query |-> "q=1"]]

\* which attempts of a call failed and which was accepted
AttemptOutcome(s, i) ==
    IF \E j \in 1 .. Len(events[s]) :
          IsFailureLine(events[s][j]) /\ events[s][j].attempt = i
    THEN "failed"
    ELSE IF \E j \in 1 .. Len(events[s]) :
          events[s][j].text.kind = "Success" /\ events[s][j].attempt = i
    THEN "accepted"
    ELSE "other"
Pattern(s) == [i \in 1 .. NumPrepares(s) |-> AttemptOutcome(s, i - 1)]
Levels(s) == [i \in 1 .. Len(FailureLines(s)) |-> FailureLines(s)[i].level]
SleepDurations(s) == [i \in 1 .. Len(Sleeps(s)) |-> Sleeps(s)[i].text.n]
Details(s) == {FailureLines(s)[i].text.detail : i \in 1 .. Len(FailureLines(s))}
\* the call ended by the return of line 106 or the raise of line 122
EndedInLoop(s) == Returned(s) \/ GaveUp(s)

\* C6: two finished calls with the same retries whose attempts failed and
\* succeeded at the same indices made the same number of sends, slept the
\* same durations, logged their failures at the same levels and ended the
\* same way, whatever the kind of each failure.
C6_RejectionLikeTransportFailure ==
    \A s, u \in Scrapers :
        (/\ EndedInLoop(s) /\ EndedInLoop(u)
         /\ retries[s] = retries[u]
         /\ Pattern(s) = Pattern(u)) =>
            /\ NumSends(s) = NumSends(u)
            /\ SleepDurations(s) = SleepDurations(u)
            /\ Levels(s) = Levels(u)
            /\ result[s].kind = result[u].kind
            /\ result[s].exc = result[u].exc

\* retries = 2: one call fails three times by transport errors, the other
\* three times by rejections
C6_Witness ==
    /\ retries["s1"] = 2 /\ retries["s2"] = 2
    /\ GaveUp("s1") /\ GaveUp("s2")
    /\ Details("s1") = { <<": ", "RequestException">> }
    /\ Details("s2") = { <<": ", "blocked">> }

\* C7 as stated: the exception of a call exhausted by rejections with a
\* reason differs in content from that of a call with the same URL and
\* retries exhausted by transport errors.
C7_ContextCapturesReason ==
    \A s, u \in Scrapers :
        (/\ GaveUp(s) /\ GaveUp(u)
         /\ retries[s] = retries[u]
         /\ req[s].url = req[u].url
         /\ Details(s) = { <<": ", "blocked">> }
         /\ Details(u) = { <<": ", "RequestException">> }) =>
            result[s].msg # result[u].msg

\* C7, amended: the reason of a rejection is in the failure line of the
\* rejected attempt and nowhere else; the ScraperException of an exhausted
\* call is made of retries+1 and the URL only, so two exhausted calls with
\* the same URL and retries raise the same content, rejections or not.
C7_ReasonOnlyLogged ==
    /\ \A s, u \in Scrapers :
          (/\ GaveUp(s) /\ GaveUp(u)
           /\ retries[s] = retries[u]
           /\ req[s].url = req[u].url) =>
              /\ result[s] = result[u]
              /\ LastEvent(s) = LastEvent(u)
    /\ \A s \in Scrapers :
          \A i \in 1 .. Len(events[s]) :
             (events[s][i].ev = "callback" /\ i < Len(events[s])) =>
                LET line == events[s][i + 1] IN
                \/ line.text.kind = "Success" /\ line.text.detail = <<>>
                \/ IsFailureLine(line) /\ line.text.detail = <<": ", "blocked">>

\* same URL, retries = 2: one call exhausted by rejections, one by transport
\* errors
C7_Witness ==
    /\ retries["s1"] = 2 /\ retries["s2"] = 2
    /\ GaveUp("s1") /\ GaveUp("s2")
    /\ req["s1"].url = req["s2"].url
    /\ Details("s1") = { <<": ", "blocked">> }
    /\ Details("s2") = { <<": ", "RequestException">> }

\* ================================================= observing the accessor
Failure(i) == calls[i] \in EntityFailures
NoResolutionFailed == \A i \in 1 .. Len(calls) : ~Failure(i)
SameOutcome(a, b) == a.kind = b.kind /\ a.value = b.value /\ a.exc = b.exc

\* the entity field of the instance
EntityState ==
    IF cache.found THEN "Resolved"
    ELSE IF \E t \in Threads : epc[t] \in {"compute", "store"} THEN "Resolving"
    ELSE IF calls # <<>> /\ Failure(Len(calls)) THEN "Failed"
    ELSE "Unresolved"

\* C8: reads one after the other, _get_entity returning (an Entity or None):
\* _get_entity is invoked exactly once, by the first read, and every read
\* returns the object that invocation returned, None included.
C8_SequentialReadsResolveOnce ==
    NoResolutionFailed =>
        /\ Len(calls) <= 1
        /\ Len(reads) >= 1 =>
              /\ Len(calls) = 1
              /\ reads[1].since = 0
              /\ \A i \in 1 .. Len(reads) :
                    /\ reads[i].kind = "return"
                    /\ reads[i].value = Cached(calls[1], 1)
                    /\ i >= 2 => reads[i].since = 1
        /\ cache.found => (Len(calls) = 1 /\ cache = Cached(calls[1], 1))

\* three reads of an accessor whose _get_entity returned None
C8_Witness ==
    /\ calls = << "None" >>
    /\ Len(reads) = 3
    /\ \A i \in 1 .. 3 : reads[i].value = Cached("None", 1)

\* C9: when all the reads so far began before _get_entity was ever invoked
\* (concurrent first accesses), _get_entity has run at most once and the
\* finished reads all saw the same value or failure.
C9_ConcurrentFirstAccess ==
    (/\ \A i \in 1 .. Len(reads) : reads[i].since = 0
     /\ \A t \in Threads : epc[t] # "idle" => entered[t] = 0) =>
        /\ Len(calls) <= 1
        /\ \A i, j \in 1 .. Len(reads) : SameOutcome(reads[i], reads[j])

\* C10 as stated: the field moves along Unresolved -> Resolving ->
\* {Resolved, Failed} only, and _get_entity runs at most once.
C10_FailedIsTerminal ==
    [][ /\ \/ EntityState' = EntityState
           \/ <<EntityState, EntityState'>> \in
                 { <<"Unresolved", "Resolving">>,
                   <<"Resolving", "Resolved">>,
                   <<"Resolving", "Failed">> }
        /\ Len(calls') <= 1 ]_vars

\* C10, amended: under reads one after the other the field moves along
\* Unresolved -> Resolving -> {Resolved, Failed} and Failed -> Resolving;
\* Resolved is terminal (the cached object never changes and _get_entity is
\* never invoked again), a failure caches nothing, and _get_entity runs once
\* per read until it first returns: at most one invocation returns.
C10_ResolvedIsTerminal ==
    [][ /\ \/ EntityState' = EntityState
           \/ <<EntityState, EntityState'>> \in
                 { <<"Unresolved", "Resolving">>,
                   <<"Resolving", "Resolved">>,
                   <<"Resolving", "Failed">>,
                   <<"Failed", "Resolving">> }
        /\ cache.found => (cache' = cache /\ calls' = calls)
        /\ EntityState' = "Failed" => ~cache'.found
        /\ Cardinality({i \in 1 .. Len(calls') : calls'[i] \notin EntityFailures}) <= 1
        /\ Len(calls') <= started' ]_vars

\* the first resolution failed, the second read resolved the entity and the
\* third read found it cached
C10_Witness ==
    /\ calls = << "ScraperException", "Entity" >>
    /\ cache = Cached("Entity", 2)
    /\ Len(reads) = 3
    /\ reads[3].value = cache

\* C11: a failure of _get_entity reaches the reader of that read as it is:
\* the reads that raised carry, in order, exactly the exceptions of the
\* failed invocations, no value is returned or cached in their place, and
\* when the first invocation fails the first read is the one that raises it.
C11_FailurePropagatesUnchanged ==
    LET failed == SelectSeq(calls, LAMBDA c : c \in {"ScraperException", "OtherError"})
        raised == SelectSeq(reads, LAMBDA r : r.kind = "raise")
    IN /\ Len(raised) = Len(failed)
       /\ \A i \in 1 .. Len(raised) :
             /\ raised[i].exc = failed[i]
             /\ raised[i].value = NotFound
       /\ \A i \in 1 .. Len(reads) :
             reads[i].kind = "return" =>
                /\ reads[i].exc = ""
                /\ reads[i].value.found
                /\ reads[i].value.val \in {"None", "Entity"}
       /\ cache.found => cache.val \in {"None", "Entity"}
       /\ (calls # <<>> /\ calls[1] \in {"ScraperException", "OtherError"}) =>
             /\ reads # <<>>
             /\ reads[1].kind = "raise"
             /\ reads[1].exc = calls[1]
             /\ reads[1].since = 0

\* the first read met a _get_entity that raised ScraperException
C11_Witness ==
    /\ Len(calls) = 1
    /\ calls[1] = "ScraperException"
    /\ Len(reads) = 1
    /\ reads[1] = ReadResult(reads[1].thread, 0, "raise", NotFound, "ScraperException")
    /\ ~cache.found

LinesOfAttempt(s, i) == {j \in 1 .. Len(events[s]) :
                            IsFailureLine(events[s][j]) /\ events[s][j].attempt = i}

\* C12: every failed attempt leaves exactly one failure line, at WARNING
\* when its index is below retries and at ERROR when it is retries; no other
\* line is at WARNING or ERROR, so an accepted attempt leaves none.
C12_FailureLineLevels ==
    \A s \in Scrapers :
        /\ \A j \in 1 .. Len(events[s]) :
              LET e == events[s][j] IN
              /\ e.level \in {"WARNING", "ERROR"} => IsFailureLine(e)
              /\ IsFailureLine(e) =>
                    /\ e.level = "WARNING" <=> e.attempt < retries[s]
                    /\ e.level = "ERROR" <=> e.attempt = retries[s]
                    /\ e.text.retrying = (IF e.attempt < retries[s] THEN ", retrying" ELSE "")
                    /\ events[s][j - 1].ev \in {"send", "callback"}
                    /\ events[s][j - 1].attempt = e.attempt
        \* the attempts the loop has left behind each failed once
        /\ \A i \in 0 .. attempt[s] - 1 : Cardinality(LinesOfAttempt(s, i)) = 1
        /\ pc[s] \in {"backoff", "else"} /\ attempt[s] >= 0 =>
              Cardinality(LinesOfAttempt(s, attempt[s])) = 1
        /\ pc[s] \in {"prepare", "send", "check"} => LinesOfAttempt(s, attempt[s]) = {}
        /\ result[s].kind = "return" =>
              /\ LinesOfAttempt(s, result[s].resp.attempt) = {}
              /\ \A j \in 1 .. Len(events[s]) :
                    events[s][j].attempt = result[s].resp.attempt =>
                       events[s][j].level \notin {"WARNING", "ERROR"}

\* retries = 2: a transport error and a rejection at WARNING, then a
\* transport error at ERROR
C12_Witness ==
    \E s \in Scrapers :
        /\ retries[s] = 2
        /\ GaveUp(s)
        /\ Levels(s) = [i \in 1 .. 3 |-> IF i < 3 THEN "WARNING" ELSE "ERROR"]
        /\ FailureLines(s)[2].text.detail = <<": ", "blocked">>
        /\ FailureLines(s)[3].text.detail = <<": ", "RequestException">>

\* the place of an event inside its attempt
Rank(e) ==
    CASE e.ev = "prepare" -> 1
      [] e.ev = "log" /\ e.text.kind = "Retrieving" -> 2
      [] e.ev = "log" /\ e.text.kind = "Headers" -> 3
      [] e.ev = "send" -> 4
      [] e.ev = "callback" -> 5
      [] e.ev = "log" /\ e.text.kind \in {"ErrorRetrieving", "Success"} -> 6
      [] e.ev = "log" /\ e.text.kind = "Waiting" -> 7
      [] e.ev = "sleep" -> 8
      [] OTHER -> 9

\* C13: the events of a call come attempt by attempt, indices 0, 1, 2, ...
\* with none skipped or repeated, and inside an attempt in the order
\* prepare, send, accept check, failure line, sleep; the prepare of attempt
\* i+1 comes right after the sleep of attempt i.
C13_AttemptsSequential ==
    \A s \in Scrapers :
        LET ev == events[s] IN
        /\ \A j \in 1 .. Len(ev) - 1 :
              \/ ev[j].attempt = ev[j + 1].attempt /\ Rank(ev[j]) < Rank(ev[j + 1])
              \/ /\ ev[j + 1].attempt = ev[j].attempt + 1
                 /\ ev[j].ev = "sleep"
                 /\ ev[j + 1].ev = "prepare"
        /\ ev # <<>> => (ev[1].ev = "prepare" /\ ev[1].attempt = 0)
        /\ \A i \in 1 .. NumPrepares(s) : Evs(s, "prepare")[i].attempt = i - 1
        /\ \A i \in 1 .. NumSends(s) : Evs(s, "send")[i].attempt = i - 1
        /\ \A i \in 1 .. Len(Sleeps(s)) : Sleeps(s)[i].attempt = i - 1
        /\ ev # <<>> =>
              LastEvent(s).attempt = (IF pc[s] = "prepare" THEN attempt[s] - 1 ELSE attempt[s])
        /\ pc[s] \in {"prepare"} => NumPrepares(s) = attempt[s]
        /\ pc[s] \in {"send", "check", "backoff"} => NumPrepares(s) = attempt[s] + 1

\* retries = 3: the fourth attempt is being sent after three failed ones
C13_Witness ==
    \E s \in Scrapers :
        /\ retries[s] = 3
        /\ pc[s] = "check"
        /\ attempt[s] = 3
        /\ NumPrepares(s) = 4
        /\ Len(Sleeps(s)) = 3

\* the requests prepare_request returned: line 83 logs each of them
Prepared(s) == SelectSeq(events[s], LAMBDA e : e.ev = "log" /\ e.text.kind = "Retrieving")

C15_CallTerminates ==
    /\ \A s \in Scrapers : Running(s) ~> (Finished(s) /\ result[s].kind \in {"return", "raise"})
    /\ [](\A s \in Scrapers :
            /\ retries[s] >= 0 => NumSends(s) <= retries[s] + 1
            /\ (retries[s] >= 0 /\ EndedInLoop(s)) => NumSends(s) >= 1
            /\ Running(s) => result[s].kind = "none")

\* retries = 3: the call returned the response of its fourth and last send
C15_Witness ==
    \E s \in Scrapers :
        /\ retries[s] = 3
        /\ Returned(s)
        /\ NumSends(s) = 4

\* C16 as stated: line 123 is never executed, and every call (already with
\* retries >= 0) leaves through the return of line 106 or through the
\* ScraperException of the else clause.
C16_TwoExitsOnly ==
    \A s \in Scrapers :
        /\ result[s].exc # "RuntimeError"
        /\ (retries[s] >= 0 /\ Finished(s)) => (Returned(s) \/ GaveUp(s))

\* C16, amended: line 123 is never executed.  A call leaves through the
\* return of line 106, through the else clause of the loop (ScraperException,
\* or UnboundLocalError at line 120 when retries < 0), or through an
\* exception of prepare_request, send or responseOkCallback that the loop
\* does not catch; the else clause is the only way out of a loop whose
\* range is used up, and with retries >= 0 that is by ScraperException.
C16_TrailingRaiseDead ==
    \A s \in Scrapers :
        /\ result[s].exc # "RuntimeError"
        /\ result[s].origin # "after"
        /\ Finished(s) =>
              \/ Returned(s) /\ LastEvent(s).text.kind = "Success"
              \/ result[s].kind = "raise" /\ result[s].origin = "else"
              \/ result[s].kind = "raise" /\ result[s].origin \in {"prepare", "send", "callback"}
        /\ (Finished(s) /\ result[s].origin = "else") =>
              /\ result[s].exc = (IF retries[s] >= 0 THEN "ScraperException"
                                  ELSE "UnboundLocalError")
              /\ NumSends(s) = (IF retries[s] >= 0 THEN retries[s] + 1 ELSE 0)
              /\ Len(FailureLines(s)) = NumSends(s)
        /\ (retries[s] >= 0 /\ EveryAttemptFailed(s) /\ NumSends(s) = retries[s] + 1) =>
              GaveUp(s)
        /\ pc[s] = "else" => result[s].kind = "none"

\* calls that left each way: an accepted response at the last attempt
C16_Witness ==
    \E s \in Scrapers :
        /\ retries[s] = 1
        /\ Returned(s)
        /\ result[s].resp.attempt = 1
        /\ args[s].callback = "None"
        /\ result[s].resp.body = "bad"

FatalLines(s) == {j \in 1 .. Len(events[s]) : events[s][j].level = "FATAL"}

\* C17: a call has a FATAL line exactly when it has raised ScraperException,
\* and then exactly one: it is the last event, it carries the message of the
\* exception and it follows the ERROR line of the attempt with index
\* retries; a call that returned has none.
C17_FatalLineOnExhaustion ==
    \A s \in Scrapers :
        /\ Cardinality(FatalLines(s)) <= 1
        /\ FatalLines(s) # {} <=> GaveUp(s)
        /\ Returned(s) => FatalLines(s) = {}
        /\ \A j \in FatalLines(s) :
              /\ j = Len(events[s])
              /\ j > 1
              /\ IsFailureLine(events[s][j - 1])
              /\ events[s][j - 1].level = "ERROR"
              /\ events[s][j - 1].attempt = retries[s]
              /\ events[s][j].text.kind = "GivingUp"
              /\ events[s][j].text.n = result[s].msg.count
              /\ events[s][j].text.url = result[s].msg.url
        /\ GaveUp(s) =>
              \A j \in 1 .. Len(events[s]) :
                 events[s][j].text.kind = "GivingUp" => events[s][j].level = "FATAL"

\* retries = 1: WARNING, ERROR, then the FATAL line and the exception
C17_Witness ==
    \E s \in Scrapers :
        /\ retries[s] = 1
        /\ GaveUp(s)
        /\ Levels(s) = <<"WARNING", "ERROR">>
        /\ LastEvent(s).level = "FATAL"

\* everything one instance holds for its call
Mine(s) == <<pc[s], args[s], attempt[s], req[s], resp[s], events[s], result[s]>>
Failures(s) == Len(FailureLines(s))
Min(a, b) == IF a < b THEN a ELSE b

\* C18: the Session and the retries of an instance are those of its
\* construction for ever; the Sessions of two instances differ; every
\* prepare and send of an instance is made on its own Session, and its
\* request is one that Session prepared; a step of one instance changes
\* nothing the other holds, and a call that ended in the loop made as many
\* sends and slept as long as its own failures tell, whatever the other
\* instance did meanwhile.
C18_Owned ==
    /\ \A s, u \in Scrapers : s # u => session[s] # session[u]
    /\ \A s \in Scrapers :
          /\ session[s] = NewSession(s)
          /\ req[s].bound => req[s].session = session[s]
          /\ \A j \in 1 .. Len(events[s]) :
                events[s][j].ev \in {"prepare", "send"} => events[s][j].via = session[s]
          /\ EndedInLoop(s) =>
                /\ NumSends(s) = Failures(s) + (IF Returned(s) THEN 1 ELSE 0)
                /\ SleepDurations(s) =
                      [i \in 1 .. Min(Failures(s), retries[s]) |-> SleepTime(i - 1)]
                /\ Returned(s) <=> Failures(s) < retries[s] + 1
C18_Step ==
    /\ session' = session
    /\ retries' = retries
    /\ \A s, u \in Scrapers :
          (s # u /\ Mine(s)' # Mine(s)) => Mine(u)' = Mine(u)
C18_SessionPerInstance == [](C18_Owned) /\ [][C18_Step]_vars

\* both instances in the middle of a call, each having sent on its own
\* Session, one on its second attempt while the other is on its first
C18_Witness ==
    /\ pc["s1"] = "check" /\ pc["s2"] = "backoff"
    /\ attempt["s1"] = 1 /\ attempt["s2"] = 0
    /\ LastEvent("s1").ev = "send" /\ LastEvent("s1").via = session["s1"]
    /\ \E j \in 1 .. Len(events["s2"]) :
          events["s2"][j].ev = "send" /\ events["s2"][j].via = session["s2"]
    /\ session["s1"] # session["s2"]

\* the sends of a call that returned a response, and its callback evaluations
Responses(s) == SelectSeq(events[s], LAMBDA e : e.ev = "send" /\ e.text.kind = "response")
Evaluations(s) == SelectSeq(events[s], LAMBDA e : e.ev = "callback")
EvaluationsOf(s, i) == Cardinality({j \in 1 .. Len(events[s]) :
                            events[s][j].ev = "callback" /\ events[s][j].attempt = i})
\* the send of attempt i returned a response and line 98 has been passed
Answered(s, i) ==
    /\ \E j \in 1 .. Len(events[s]) :
          /\ events[s][j].ev = "send"
          /\ events[s][j].attempt = i
          /\ events[s][j].text.kind = "response"
    /\ ~(pc[s] = "check" /\ attempt[s] = i)

\* C19: in a call with a callback, the callback has been evaluated once for
\* every attempt whose send returned a response, directly after that send,
\* and not at all for any other attempt, so that a finished call counts as
\* many evaluations as responses; in a call without a callback nothing is
\* evaluated and the call ends by returning the first response a send returns.
C19_CallbackOncePerResponse ==
    \A s \in Scrapers :
        /\ args[s].callback # "None" =>
              /\ \A i \in 0 .. MaxRetries + 1 :
                    EvaluationsOf(s, i) = IF Answered(s, i) THEN 1 ELSE 0
              /\ \A j \in 1 .. Len(events[s]) :
                    events[s][j].ev = "callback" =>
                       /\ j > 1
                       /\ events[s][j - 1].ev = "send"
                       /\ events[s][j - 1].text.kind = "response"
                       /\ events[s][j - 1].attempt = events[s][j].attempt
              /\ Finished(s) => Len(Evaluations(s)) = Len(Responses(s))
        /\ args[s].callback = "None" =>
              /\ Evaluations(s) = <<>>
              /\ Len(Responses(s)) <= 1
              /\ (Finished(s) /\ Responses(s) # <<>>) =>
                    /\ Returned(s)
                    /\ result[s].resp.attempt = Responses(s)[1].attempt
                    /\ result[s].resp = resp[s]

\* with a callback: a transport error, a rejected response, an accepted one:
\* three sends, two evaluations
C19_Witness ==
    \E s \in Scrapers :
        /\ args[s].callback # "None"
        /\ Returned(s)
        /\ NumSends(s) = 3
        /\ Len(Responses(s)) = 2
        /\ Len(Evaluations(s)) = 2
        /\ Details(s) = { <<": ", "RequestException">>, <<": ", "blocked">> }

\* without a callback: a transport error, then a response the callback
\* would have rejected is returned
C19_WitnessNoCallback ==
    \E s \in Scrapers :
        /\ args[s].callback = "None"
        /\ Returned(s)
        /\ NumSends(s) = 2
        /\ result[s].resp.body = "bad"

\* C20: with retries below zero the loop of _request has no iteration: the
\* call prepares, sends, evaluates, sleeps and logs nothing, never returns a
\* response, and ends in the else clause of the loop by the error of reading
\* req, which no iteration has bound: an UnboundLocalError, not a
\* ScraperException.
C20_NegativeRetries ==
    \A s \in Scrapers :
        retries[s] < 0 =>
            /\ events[s] = <<>>
            /\ NumPrepares(s) = 0 /\ NumSends(s) = 0
            /\ Evaluations(s) = <<>> /\ Sleeps(s) = <<>>
            /\ pc[s] \in {"idle", "else", "done"}
            /\ ~req[s].bound
            /\ resp[s] = NoResp
            /\ ~Returned(s)
            /\ ~GaveUp(s)
            /\ Finished(s) =>
                  /\ Raised(s)
                  /\ result[s].exc = "UnboundLocalError"
                  /\ result[s].exc # "ScraperException"
                  /\ result[s].origin = "else"
                  /\ result[s].resp = NoResp

\* a finished call of a Scraper built with retries = -1
C20_Witness ==
    \E s \in Scrapers :
        /\ retries[s] = -1
        /\ pc[s] = "done"
        /\ args[s].url = "http://a/"
        /\ Raised(s)
        /\ result[s].exc = "UnboundLocalError"
====
